---- MODULE Spec2Model ----
(***************************************************************************)
(* Model of the WOPI proof-key subsystem of src/wsd/ProofKey.cpp:          *)
(* the lazily constructed process-wide Proof object (key load, discovery   *)
(* attributes), the proof byte string built by Proof::GetProof, the        *)
(* signing done by Proof::SignProof on its function-static digest engine,  *)
(* and the two entry points GetProofHeaders / GetProofKeyAttributes called *)
(* from several threads.                                                   *)
(*                                                                         *)
(* Strings and byte vectors are sequences of byte values 0..255.  64-bit   *)
(* quantities (nanoseconds, ticks) are kept exactly as four base-10^6      *)
(* limbs, most significant first, because they exceed the checker's        *)
(* integer range.                                                          *)
(***************************************************************************)
EXTENDS Integers, Sequences, FiniteSets, TLC

\* ------------------------------------------------------------------------
\* Bounds of the model
\* ------------------------------------------------------------------------
NumThreads == 2
MaxTokLen == 2
MaxKeyLen == 2
MaxLoads == 2

\* ------------------------------------------------------------------------
\* Byte-sequence helpers
\* ------------------------------------------------------------------------
RECURSIVE Reverse(_)
Reverse(s) == IF s = <<>> THEN <<>> ELSE Reverse(Tail(s)) \o <<Head(s)>>

RECURSIVE Pow(_, _)
Pow(b, n) == IF n = 0 THEN 1 ELSE b * Pow(b, n - 1)

\* byte i (0 = least significant) of the non-negative integer x
ByteOf(x, i) == (x \div Pow(256, i)) % 256

\* all sequences over alphabet A of length at most n
RECURSIVE SeqsUpTo(_, _)
SeqsUpTo(A, n) ==
    IF n = 0 THEN {<<>>}
    ELSE LET shorter == SeqsUpTo(A, n - 1)
         IN  shorter \cup {Append(s, a) : s \in shorter, a \in A}

\* ------------------------------------------------------------------------
\* 64-bit values as four base-10^6 limbs
\* ------------------------------------------------------------------------
LimbBase == 1000 * 1000

\* quotient and remainder of the limb number a by the small divisor d
RECURSIVE BigDivModFrom(_, _, _, _)
BigDivModFrom(a, d, i, rem) ==
    IF i > Len(a) THEN [q |-> <<>>, r |-> rem]
    ELSE LET cur  == rem * LimbBase + a[i]
             rest == BigDivModFrom(a, d, i + 1, cur % d)
         IN  [q |-> <<cur \div d>> \o rest.q, r |-> rest.r]

BigDiv(a, d) == BigDivModFrom(a, d, 1, 0).q
BigMod(a, d) == BigDivModFrom(a, d, 1, 0).r

\* sum of two limb numbers of equal length (the carry out of the top limb
\* does not occur for the instants of the model)
RECURSIVE BigAddFrom(_, _, _, _)
BigAddFrom(a, b, i, carry) ==
    IF i = 0 THEN <<>>
    ELSE LET s == a[i] + b[i] + carry
         IN  BigAddFrom(a, b, i - 1, s \div LimbBase) \o <<s % LimbBase>>

BigAdd(a, b) == BigAddFrom(a, b, Len(a), 0)

\* the n low-order bytes of a limb number, least significant first
RECURSIVE BigBytesLE(_, _)
BigBytesLE(a, n) ==
    IF n = 0 THEN <<>>
    ELSE <<BigMod(a, 256)>> \o BigBytesLE(BigDiv(a, 256), n - 1)

\* six decimal digits of one limb, zero padded
Pad6(l) ==
    (IF l < 10 THEN "00000"
     ELSE IF l < 100 THEN "0000"
     ELSE IF l < 1000 THEN "000"
     ELSE IF l < 10000 THEN "00"
     ELSE IF l < 100000 THEN "0"
     ELSE "") \o ToString(l)

\* std::to_string(int64_t) for a non-negative value
RECURSIVE ToStringFrom(_, _, _)
ToStringFrom(a, i, started) ==
    IF i > Len(a) THEN (IF started THEN "" ELSE "0")
    ELSE IF ~started /\ a[i] = 0 THEN ToStringFrom(a, i + 1, FALSE)
    ELSE (IF started THEN Pad6(a[i]) ELSE ToString(a[i]))
             \o ToStringFrom(a, i + 1, TRUE)

to_string(ticks) == ToStringFrom(ticks, 1, FALSE)

\* ------------------------------------------------------------------------
\* Little-endian bytes and the CAPI public-key blob
\* ------------------------------------------------------------------------
\* object representation of an n-byte unsigned integer on the host
SystemBytes(v, n, bigEndian) ==
    LET le == [i \in 1..n |-> ByteOf(v, i - 1)]
    IN  IF bigEndian THEN Reverse(le) ELSE le

\* getBytesLE(const unsigned char*, size_t): copy_n forwards on a
\* little-endian host, into rbegin() on a big-endian one
getBytesLE_HostOrder(bytesInSystemOrder, bigEndian) == bytesInSystemOrder

getBytesLE(bytesInSystemOrder, bigEndian) ==
    IF bigEndian THEN Reverse(bytesInSystemOrder) ELSE bytesInSystemOrder

CapiMagic == <<6, 2, 0, 0, 0, 164, 0, 0, 82, 83, 65, 49>>

RSA2CapiBlob(modulus, exponent, bigEndian) ==
    LET bitLen == getBytesLE(SystemBytes(Len(modulus) * 8, 4, bigEndian), bigEndian)
    IN  CapiMagic \o bitLen \o Reverse(exponent) \o Reverse(modulus)

\* ------------------------------------------------------------------------
\* Base64 (Poco::Base64Encoder, 72-column lines, through an
\* OutputLineEndingConverter whose newline is the empty string)
\* ------------------------------------------------------------------------
Base64Alphabet ==
    <<"A","B","C","D","E","F","G","H","I","J","K","L","M","N","O","P",
      "Q","R","S","T","U","V","W","X","Y","Z","a","b","c","d","e","f",
      "g","h","i","j","k","l","m","n","o","p","q","r","s","t","u","v",
      "w","x","y","z","0","1","2","3","4","5","6","7","8","9","+","/">>

B64(n) == Base64Alphabet[n + 1]

\* the encoder's output as a sequence of characters, CR LF after every
\* full group that reaches the line length
RECURSIVE Base64Encode(_, _)
Base64Encode(bytes, pos) ==
    IF Len(bytes) = 0 THEN <<>>
    ELSE IF Len(bytes) = 1 THEN
        <<B64(bytes[1] \div 4), B64((bytes[1] % 4) * 16), "=", "=">>
    ELSE IF Len(bytes) = 2 THEN
        <<B64(bytes[1] \div 4),
          B64((bytes[1] % 4) * 16 + bytes[2] \div 16),
          B64((bytes[2] % 16) * 4), "=">>
    ELSE
        LET group == <<B64(bytes[1] \div 4),
                       B64((bytes[1] % 4) * 16 + bytes[2] \div 16),
                       B64((bytes[2] % 16) * 4 + bytes[3] \div 64),
                       B64(bytes[3] % 64)>>
            rest  == SubSeq(bytes, 4, Len(bytes))
        IN  IF pos + 4 >= 72
            THEN group \o <<"\r", "\n">> \o Base64Encode(rest, 0)
            ELSE group \o Base64Encode(rest, pos + 4)

\* the line ending converter drops every CR and LF; the rest is joined
RECURSIVE LineEndingConv(_)
LineEndingConv(chars) ==
    IF chars = <<>> THEN ""
    ELSE IF Head(chars) \in {"\r", "\n"} THEN LineEndingConv(Tail(chars))
    ELSE Head(chars) \o LineEndingConv(Tail(chars))

BytesToBase64(bytes) == LineEndingConv(Base64Encode(bytes, 0))

\* ------------------------------------------------------------------------
\* Ticks
\* ------------------------------------------------------------------------
\* 621355968000000000
DotNetEpochOffset == <<0, 621355, 968000, 0>>

\* utc is the instant as nanoseconds since the Unix epoch
DotNetTicks(utc) == BigAdd(BigDiv(utc, 100), DotNetEpochOffset)

\* ------------------------------------------------------------------------
\* Proof bytes
\* ------------------------------------------------------------------------
IsDigit(c) == c >= 48 /\ c <= 57
IsUpperHex(c) == c >= 65 /\ c <= 70
IsLowerHex(c) == c >= 97 /\ c <= 102
IsHex(c) == IsDigit(c) \/ IsUpperHex(c) \/ IsLowerHex(c)
HexVal(c) == IF IsDigit(c) THEN c - 48
             ELSE IF IsUpperHex(c) THEN c - 65 + 10
             ELSE c - 97 + 10

\* Poco::URI::decode(str, decodedStr): %XX becomes one byte; a percent sign
\* not followed by two hex digits raises URISyntaxException
RECURSIVE URIdecode(_)
URIdecode(str) ==
    IF str = <<>> THEN [ok |-> TRUE, value |-> <<>>]
    ELSE IF Head(str) = 37 THEN
        IF Len(str) < 3 \/ ~IsHex(str[2]) \/ ~IsHex(str[3])
        THEN [ok |-> FALSE, value |-> <<>>]
        ELSE LET rest == URIdecode(SubSeq(str, 4, Len(str)))
             IN  [ok |-> rest.ok,
                  value |-> <<HexVal(str[2]) * 16 + HexVal(str[3])>> \o rest.value]
    ELSE LET rest == URIdecode(Tail(str))
         IN  [ok |-> rest.ok, value |-> <<Head(str)>> \o rest.value]

\* Poco::MemoryOutputStream over a fixed area of cap bytes: a write that
\* does not fit stores what fits and leaves the stream bad; a bad stream
\* ignores writes
StreamWrite(s, bytes, cap) ==
    IF s.bad THEN s
    ELSE IF Len(s.mem) + Len(bytes) <= cap
         THEN [mem |-> s.mem \o bytes, bad |-> FALSE]
         ELSE [mem |-> s.mem \o SubSeq(bytes, 1, cap - Len(s.mem)), bad |-> TRUE]

\* BinaryWriter in NETWORK_BYTE_ORDER: the host representation, byte-flipped
\* when the host is little-endian
WriterInt32(v, bigEndian) ==
    LET native == SystemBytes(v, 4, bigEndian)
    IN  IF bigEndian THEN native ELSE Reverse(native)

WriterInt64(ticks, bigEndian) ==
    LET le     == BigBytesLE(ticks, 8)
        native == IF bigEndian THEN Reverse(le) ELSE le
    IN  IF bigEndian THEN native ELSE Reverse(native)

\* BinaryWriter::write7BitEncoded
RECURSIVE Write7BitEncoded(_)
Write7BitEncoded(v) ==
    IF v \div 128 = 0 THEN <<v % 128>>
    ELSE <<(v % 128) + 128>> \o Write7BitEncoded(v \div 128)

\* BinaryWriter::operator<<(const std::string&): the 7-bit encoded length,
\* then the characters
WriterString(str) == Write7BitEncoded(Len(str)) \o str

\* buffer.size() when line 191 and line 192 read it: resize(0) set it, and
\* the writer stores through the raw pointer of its MemoryOutputStream
BufferSize(written) == 0

\* Proof::GetProof; status is "ok", "throw" (URISyntaxException out of
\* decode) or "abort" (assertion of line 191 in a build with assertions)
GetProof(access_token, uri, ticks, bigEndian, ndebug) ==
    LET dec == URIdecode(access_token)
        decoded_access_token == dec.value
        size == 4 + Len(decoded_access_token) + 4 + Len(uri) + 4 + 8
        s0 == [mem |-> <<>>, bad |-> FALSE]
        s1 == StreamWrite(s0, WriterInt32(Len(decoded_access_token), bigEndian), size)
        s2 == StreamWrite(s1, WriterString(decoded_access_token), size)
        s3 == StreamWrite(s2, WriterInt32(Len(uri), bigEndian), size)
        s4 == StreamWrite(s3, WriterString(uri), size)
        s5 == StreamWrite(s4, WriterInt32(8, bigEndian), size)
        s6 == StreamWrite(s5, WriterInt64(ticks, bigEndian), size)
        used == BufferSize(Len(s6.mem))
    IN  IF ~dec.ok THEN [status |-> "throw", value |-> <<>>]
        ELSE IF ~ndebug /\ used # size THEN [status |-> "abort", value |-> <<>>]
        ELSE [status |-> "ok", value |-> SubSeq(s6.mem, 1, used)]

\* ------------------------------------------------------------------------
\* Keys, signing
\* ------------------------------------------------------------------------
\* m_pKey == nullptr
NoKey == [id |-> 0, modulus |-> <<>>, exponent |-> <<>>]

KeyA == [id |-> 1, modulus |-> <<200, 17>>, exponent |-> <<1, 0, 1>>]

\* what LOOLWSD_CONFIGDIR "/proof_key" can be
KeyFiles ==
    {[kind |-> k, key |-> NoKey] : k \in {"missing", "unreadable", "malformed"}}
        \cup {[kind |-> "valid", key |-> KeyA]}

NoFile == [kind |-> "none", key |-> NoKey]

\* the lambda of the constructor: new RSAKey("", path), every exception
\* caught and turned into nullptr
TryLoadKey_ParseUnchecked(file) ==
    IF file.kind \in {"valid", "malformed"} THEN KeyA ELSE NoKey

TryLoadKey(file) == IF file.kind = "valid" THEN file.key ELSE NoKey

\* body of the constructor
ProofAttribs_NoExponent(key, bigEndian) ==
    IF key # NoKey
    THEN << <<"value", BytesToBase64(RSA2CapiBlob(key.modulus, key.exponent, bigEndian))>>,
            <<"modulus", BytesToBase64(key.modulus)>> >>
    ELSE <<>>

ProofAttribs(key, bigEndian) ==
    IF key # NoKey
    THEN << <<"value", BytesToBase64(RSA2CapiBlob(key.modulus, key.exponent, bigEndian))>>,
            <<"modulus", BytesToBase64(key.modulus)>>,
            <<"exponent", BytesToBase64(key.exponent)>> >>
    ELSE <<>>

\* state of the function-local static after its initializer has run
StaticProofState_Reconstructed == "uninit"

StaticProofState == "done"

\* SHA-256 and RSA PKCS#1 signing, idealised as collision-free and
\* deterministic: the digest determines the message, the signature the key
\* and the digest.  A digest is never the empty vector.
SHA256(msg) == <<Len(msg)>> \o msg
RSA_sign(key, dg) == <<key.id>> \o dg

\* _signature.resize(_key.size()) before RSA_sign has filled it
UnfilledSignature(key) == [i \in 1..Len(key.modulus) |-> 0]

\* the static Poco::Crypto::RSADigestEngine of SignProof
NewEngine == [ctx |-> <<>>, digest |-> <<>>, signature |-> <<>>]

\* RSADigestEngine::update
EngineUpdate(e, bytes) == [e EXCEPT !.ctx = e.ctx \o bytes]

\* RSADigestEngine::digest(): finalises the context once, then keeps the
\* digest until reset(), which SignProof never calls
EngineDigest(e) ==
    IF e.digest = <<>>
    THEN [e EXCEPT !.digest = SHA256(e.ctx), !.ctx = <<>>]
    ELSE e

\* ------------------------------------------------------------------------
\* Inputs
\* ------------------------------------------------------------------------
TokAbc == <<97, 98, 99>>
TokAbd == <<97, 98, 100>>
TokBadEscape == <<37>>
TokEncoded == <<116, 111, 107, 37, 50, 48, 101, 110>>
UriXY == <<104, 116, 116, 112, 58, 47, 47, 120, 47, 121>>
UriWopi == <<104, 116, 116, 112, 115, 58, 47, 47, 104, 111, 115, 116, 47,
             119, 111, 112, 105, 47, 102, 105, 108, 101, 115, 47, 49>>

\* instants, as nanoseconds since the Unix epoch
UnixEpoch == <<0, 0, 0, 0>>
Instant637 == <<1, 564403, 200000, 0>>

\* the scenario's uri as the 26 bytes it is counted as: with its terminator
UriWopi26 == UriWopi \o <<0>>

\* what the threads of the process call with
Tokens == {TokAbc, TokAbd, TokBadEscape}
Uris == {UriXY}
Instants == {Instant637}

\* what the functions applied on their own are given
TokenBytes == {37, 50, 97}
KeyBytes == {0, 1, 255}
LongModulus == [i \in 1..33 |-> i]
BuildTokens == SeqsUpTo(TokenBytes, MaxTokLen) \cup {TokAbc, TokAbd, TokEncoded}
BuildUris == {UriXY, UriWopi, UriWopi26}
BuildTicks == {DotNetTicks(UnixEpoch), DotNetTicks(Instant637)}
BlobModuli == SeqsUpTo(KeyBytes, MaxKeyLen) \cup {LongModulus}
BlobExponents == SeqsUpTo(KeyBytes, MaxKeyLen) \cup {<<1, 0, 1>>}

Threads == 1..NumThreads

\* ------------------------------------------------------------------------
\* State
\* ------------------------------------------------------------------------
VARIABLES
    ndebug,         \* the build compiles assert() out
    bigEndianHost,  \* __BYTE_ORDER__ of the build
    keyFile,        \* the proof_key file on disk
    proofInit,      \* guard of "static const Proof proof": uninit, constructing, done
    m_pKey,
    m_aAttribs,
    loadCount,      \* how often the key file has been opened
    loadedFile,     \* the file as it was when the constructor read it
    engInit,        \* guard of "static RSADigestEngine digestEngine"
    digestEngine,
    thr,            \* per thread: position and locals of the running call
    aborted,        \* the process died in abort()
    pure            \* argument and result of a function applied on its own

vars == <<ndebug, bigEndianHost, keyFile, proofInit, m_pKey, m_aAttribs,
          loadCount, loadedFile, engInit, digestEngine, thr, aborted, pure>>

Idle ==
    [pc |-> "idle", op |-> "none", access_token |-> <<>>, uri |-> <<>>,
     ticks |-> UnixEpoch, proof |-> <<>>, digest |-> <<>>, raced |-> FALSE,
     sigfail |-> FALSE, ret |-> <<>>, outcome |-> "none"]

NoPure == [fn |-> "none"]

InitProcess ==
    /\ proofInit = "uninit"
    /\ m_pKey = NoKey
    /\ m_aAttribs = <<>>
    /\ loadCount = 0
    /\ loadedFile = NoFile
    /\ engInit = FALSE
    /\ digestEngine = NewEngine
    /\ thr = [t \in Threads |-> Idle]
    /\ aborted = FALSE

Init ==
    /\ ndebug \in BOOLEAN
    /\ bigEndianHost \in BOOLEAN
    /\ keyFile \in KeyFiles
    /\ InitProcess
    /\ pure = NoPure

Build == <<ndebug, bigEndianHost>>
ProofObject == <<proofInit, m_pKey, m_aAttribs, loadCount, loadedFile>>
Engine == <<engInit, digestEngine>>

\* ------------------------------------------------------------------------
\* Entry points and the lazily constructed Proof
\* ------------------------------------------------------------------------
\* ::GetProofHeaders(access_token, uri) is entered
CallGetProofHeaders(t, access_token, uri) ==
    /\ ~aborted
    /\ thr[t].pc = "idle"
    /\ thr' = [thr EXCEPT ![t] = [Idle EXCEPT !.pc = "getProof", !.op = "headers",
                                              !.access_token = access_token,
                                              !.uri = uri]]
    /\ UNCHANGED <<Build, keyFile, ProofObject, Engine, aborted, pure>>

\* ::GetProofKeyAttributes() is entered
CallGetProofKeyAttributes(t) ==
    /\ ~aborted
    /\ thr[t].pc = "idle"
    /\ thr' = [thr EXCEPT ![t] = [Idle EXCEPT !.pc = "getProof", !.op = "attribs"]]
    /\ UNCHANGED <<Build, keyFile, ProofObject, Engine, aborted, pure>>

\* GetProof(): the first thread to arrive takes the guard of the static;
\* a thread arriving while the object is under construction waits
StaticInitBegin(t) ==
    /\ ~aborted
    /\ thr[t].pc = "getProof"
    /\ proofInit = "uninit"
    /\ loadCount < MaxLoads
    /\ proofInit' = "constructing"
    /\ thr' = [thr EXCEPT ![t].pc = "ctor"]
    /\ UNCHANGED <<Build, keyFile, m_pKey, m_aAttribs, loadCount, loadedFile,
                   Engine, aborted, pure>>

\* Proof::Proof() run by the thread holding the guard
ProofCtor(t) ==
    /\ ~aborted
    /\ thr[t].pc = "ctor"
    /\ loadCount' = loadCount + 1
    /\ loadedFile' = keyFile
    /\ m_pKey' = TryLoadKey(keyFile)
    /\ m_aAttribs' = ProofAttribs(TryLoadKey(keyFile), bigEndianHost)
    /\ proofInit' = StaticProofState
    /\ thr' = [thr EXCEPT ![t].pc = "haveProof"]
    /\ UNCHANGED <<Build, keyFile, Engine, aborted, pure>>

\* GetProof() has handed the thread the constructed object
HasProof(t) ==
    \/ thr[t].pc = "haveProof"
    \/ thr[t].pc = "getProof" /\ proofInit = "done"

\* Proof::GetProofKeyAttributes
ReturnAttribs(t) ==
    /\ ~aborted
    /\ HasProof(t)
    /\ thr[t].op = "attribs"
    /\ thr' = [thr EXCEPT ![t].pc = "done", ![t].ret = m_aAttribs,
                          ![t].outcome = "returned"]
    /\ UNCHANGED <<Build, keyFile, ProofObject, Engine, aborted, pure>>

\* Proof::GetProofHeaders with m_pKey == nullptr
HeadersNoKey(t) ==
    /\ ~aborted
    /\ HasProof(t)
    /\ thr[t].op = "headers"
    /\ m_pKey = NoKey
    /\ thr' = [thr EXCEPT ![t].pc = "done", ![t].ret = <<>>,
                          ![t].outcome = "returned"]
    /\ UNCHANGED <<Build, keyFile, ProofObject, Engine, aborted, pure>>

\* Proof::GetProofHeaders with a key: lines 216, 217, the call of GetProof
\* of line 218, and SignProof up to line 200 (the engine is constructed on
\* the first pass, then fed)
HeadersBuild(t, now) ==
    /\ ~aborted
    /\ HasProof(t)
    /\ thr[t].op = "headers"
    /\ m_pKey # NoKey
    /\ \E ticks \in {DotNetTicks(now)} :
       \E r \in {GetProof(thr[t].access_token, thr[t].uri, ticks, bigEndianHost, ndebug)} :
           /\ aborted' = (r.status = "abort")
           /\ engInit' = (engInit \/ r.status = "ok")
           /\ digestEngine' = IF r.status = "ok"
                              THEN EngineUpdate(digestEngine, r.value)
                              ELSE digestEngine
           /\ thr' = [thr EXCEPT ![t] =
                  IF r.status = "ok"
                  THEN [@ EXCEPT !.pc = "updated", !.ticks = ticks, !.proof = r.value,
                                 !.ret = << <<"X-WOPI-TimeStamp", to_string(ticks)>> >>]
                  ELSE [@ EXCEPT !.pc = "done", !.ticks = ticks,
                                 !.outcome = IF r.status = "abort"
                                             THEN "aborted" ELSE "thrown"]]
    /\ UNCHANGED <<Build, keyFile, ProofObject, pure>>

Signing(t) == thr[t].pc = "signing"

\* SignProof lines 204-208 and the return of GetProofHeaders
Returned(th, digest) ==
    [th EXCEPT !.pc = "done", !.outcome = "returned", !.digest = digest,
               !.ret = Append(th.ret, <<"X-WOPI-Proof", BytesToBase64(digest)>>)]

\* signature(), line 201, finds _signature filled and returns it
SignatureCached(t) ==
    /\ ~aborted
    /\ thr[t].pc = "updated"
    /\ digestEngine.signature # <<>>
    /\ thr' = [thr EXCEPT ![t] = Returned(@, digestEngine.signature)]
    /\ UNCHANGED <<Build, keyFile, ProofObject, Engine, aborted, pure>>

\* signature() finds _signature empty and starts to compute it; nothing
\* keeps a second thread from doing the same on the same vectors
SignatureBegin(t) ==
    /\ ~aborted
    /\ thr[t].pc = "updated"
    /\ digestEngine.signature = <<>>
    /\ LET clash == \E u \in Threads \ {t} : Signing(u)
       IN  thr' = [u \in Threads |->
                     IF u = t THEN [thr[u] EXCEPT !.pc = "signing", !.raced = clash]
                     ELSE IF Signing(u) THEN [thr[u] EXCEPT !.raced = TRUE]
                     ELSE thr[u]]
    /\ UNCHANGED <<Build, keyFile, ProofObject, Engine, aborted, pure>>

\* signature() completes: digest, resize, RSA_sign.  A thread that raced
\* with another one on _signature may copy the vector before it is filled
SignatureEnd(t) ==
    /\ ~aborted
    /\ Signing(t)
    /\ LET e   == EngineDigest(digestEngine)
           sig == RSA_sign(m_pKey, e.digest)
       IN  /\ digestEngine' = [e EXCEPT !.signature = sig]
           /\ \E seen \in (IF thr[t].raced THEN {sig, UnfilledSignature(m_pKey)}
                           ELSE {sig}) :
                 thr' = [thr EXCEPT ![t] = Returned(@, seen)]
    /\ UNCHANGED <<Build, keyFile, ProofObject, engInit, aborted, pure>>

\* RSA_sign fails and its return value is not looked at: the zero-filled
\* vector is the signature
SignatureFailsSilently(t) ==
    /\ ~aborted
    /\ Signing(t)
    /\ LET e == EngineDigest(digestEngine)
       IN  /\ digestEngine' = [e EXCEPT !.signature = UnfilledSignature(m_pKey)]
           /\ thr' = [thr EXCEPT ![t] =
                        Returned([@ EXCEPT !.sigfail = TRUE], UnfilledSignature(m_pKey))]
    /\ UNCHANGED <<Build, keyFile, ProofObject, engInit, aborted, pure>>

\* the cryptographic library throws; neither SignProof nor GetProofHeaders
\* has a handler
SignatureThrows(t) ==
    /\ ~aborted
    /\ Signing(t)
    /\ digestEngine' = EngineDigest(digestEngine)
    /\ thr' = [thr EXCEPT ![t].pc = "done", ![t].sigfail = TRUE,
                          ![t].outcome = "thrown"]
    /\ UNCHANGED <<Build, keyFile, ProofObject, engInit, aborted, pure>>

\* the caller has taken the result; the thread is free for the next call
Finish(t) ==
    /\ ~aborted
    /\ thr[t].pc = "done"
    /\ thr' = [thr EXCEPT ![t] = Idle]
    /\ UNCHANGED <<Build, keyFile, ProofObject, Engine, aborted, pure>>

\* the environment replaces, removes or damages the key file.  Only the
\* constructor reads the file, so a change before it has run is a different
\* initial file; one change after it is what a reload would pick up
ChangeKeyFile(f) ==
    /\ ~aborted
    /\ proofInit = "done"
    /\ keyFile = loadedFile
    /\ (f.kind = "valid") # (keyFile.kind = "valid")
    /\ keyFile' = f
    /\ UNCHANGED <<Build, ProofObject, Engine, thr, aborted, pure>>

Next ==
    \/ \E t \in Threads, a \in Tokens, u \in Uris : CallGetProofHeaders(t, a, u)
    \/ \E t \in Threads : CallGetProofKeyAttributes(t)
    \/ \E t \in Threads : StaticInitBegin(t)
    \/ \E t \in Threads : ProofCtor(t)
    \/ \E t \in Threads : ReturnAttribs(t)
    \/ \E t \in Threads : HeadersNoKey(t)
    \/ \E t \in Threads, now \in Instants : HeadersBuild(t, now)
    \/ \E t \in Threads : SignatureCached(t)
    \/ \E t \in Threads : SignatureBegin(t)
    \/ \E t \in Threads : SignatureEnd(t)
    \/ \E t \in Threads : SignatureFailsSilently(t)
    \/ \E t \in Threads : SignatureThrows(t)
    \/ \E t \in Threads : Finish(t)
    \/ \E f \in KeyFiles : ChangeKeyFile(f)

Spec == Init /\ [][Next]_vars

\* ------------------------------------------------------------------------
\* RSA2CapiBlob applied on its own
\* ------------------------------------------------------------------------
InitBlob ==
    /\ ndebug \in BOOLEAN
    /\ bigEndianHost \in BOOLEAN
    /\ keyFile = [kind |-> "missing", key |-> NoKey]
    /\ InitProcess
    /\ pure \in {[fn |-> "RSA2CapiBlob", modulus |-> m, exponent |-> e,
                  done |-> FALSE, out |-> <<>>] :
                    m \in BlobModuli, e \in BlobExponents}

ApplyRSA2CapiBlob ==
    /\ pure.fn = "RSA2CapiBlob"
    /\ ~pure.done
    /\ pure' = [pure EXCEPT !.done = TRUE,
                   !.out = RSA2CapiBlob(pure.modulus, pure.exponent, bigEndianHost)]
    /\ UNCHANGED <<Build, keyFile, ProofObject, Engine, thr, aborted>>

NextBlob == ApplyRSA2CapiBlob

SpecBlob == InitBlob /\ [][NextBlob]_vars

\* ------------------------------------------------------------------------
\* Proof::GetProof applied on its own
\* ------------------------------------------------------------------------
InitBuild ==
    /\ ndebug \in BOOLEAN
    /\ bigEndianHost \in BOOLEAN
    /\ keyFile = [kind |-> "missing", key |-> NoKey]
    /\ InitProcess
    /\ pure \in {[fn |-> "GetProof", access_token |-> a, uri |-> u, ticks |-> k,
                  done |-> FALSE, out |-> [status |-> "none", value |-> <<>>]] :
                    a \in BuildTokens, u \in BuildUris, k \in BuildTicks}

ApplyGetProof ==
    /\ pure.fn = "GetProof"
    /\ ~pure.done
    /\ pure' = [pure EXCEPT !.done = TRUE,
                   !.out = GetProof(pure.access_token, pure.uri, pure.ticks,
                                    bigEndianHost, ndebug)]
    /\ UNCHANGED <<Build, keyFile, ProofObject, Engine, thr, aborted>>

NextBuild == ApplyGetProof

SpecBuild == InitBuild /\ [][NextBuild]_vars

\* ------------------------------------------------------------------------
\* What the properties are stated with
\* ------------------------------------------------------------------------
BigEndian32(v) == <<ByteOf(v, 3), ByteOf(v, 2), ByteOf(v, 1), ByteOf(v, 0)>>
LittleEndian32(v) == <<ByteOf(v, 0), ByteOf(v, 1), ByteOf(v, 2), ByteOf(v, 3)>>
BigEndian64(ticks) ==
    LET le == BigBytesLE(ticks, 8) IN [i \in 1..8 |-> le[9 - i]]
Reversed(s) == [i \in 1..Len(s) |-> s[Len(s) + 1 - i]]
Ticks637 == <<0, 637000, 0, 0>>

\* the canonical payload of section 4.3
ProofBytes(decodedToken, uri, ticks) ==
    BigEndian32(Len(decodedToken)) \o decodedToken
        \o BigEndian32(Len(uri)) \o uri
        \o BigEndian32(8) \o BigEndian64(ticks)

\* the container layout of section 4.2
PublicKeyBlob(M, E) ==
    <<6, 2, 0, 0, 0, 164, 0, 0, 82, 83, 65, 49>>
        \o LittleEndian32(Len(M) * 8) \o Reversed(E) \o Reversed(M)

\* the header value a call signing msg with the loaded key returns when
\* nothing else touches the engine
ProofOf(msg) == BytesToBase64(RSA_sign(m_pKey, SHA256(msg)))

HeadersDone(t) == thr[t].pc = "done" /\ thr[t].op = "headers"
AttribsDone(t) == thr[t].pc = "done" /\ thr[t].op = "attribs"
HeadersReturned(t) == HeadersDone(t) /\ thr[t].outcome = "returned"
LoadFailed == proofInit = "done" /\ loadedFile.kind # "valid"
KeyLoaded == proofInit = "done" /\ m_pKey # NoKey

\* sequences of equal length that differ in exactly one position
DifferInOneByte(a, b) ==
    /\ Len(a) = Len(b)
    /\ Cardinality({i \in 1..Len(a) : a[i] # b[i]}) = 1

\* ------------------------------------------------------------------------
\* Properties
\* ------------------------------------------------------------------------
\* C1: every call of getProofHeaders returns; with a key loaded it returns
\* exactly the two entries ("X-WOPI-TimeStamp", decimal(ticks)) and
\* ("X-WOPI-Proof", signature) in this order, without a key the empty list.
C1_TwoHeadersOrNone ==
    \A t \in Threads :
        HeadersDone(t) =>
            /\ thr[t].outcome = "returned"
            /\ IF m_pKey # NoKey
               THEN /\ Len(thr[t].ret) = 2
                    /\ thr[t].ret[1] = <<"X-WOPI-TimeStamp", to_string(thr[t].ticks)>>
                    /\ thr[t].ret[2][1] = "X-WOPI-Proof"
               ELSE thr[t].ret = <<>>

\* C2: the X-WOPI-Proof of a call is the signature of that call's own
\* ProofBytes (its decoded token, its uri, the ticks of its timestamp),
\* whatever was called before; calls whose tokens or uris differ in one
\* byte at equal ticks return different proofs.
C2_ProofSignsOwnProofBytes ==
    /\ \A t \in Threads :
          (HeadersReturned(t) /\ ~thr[t].sigfail /\ ~thr[t].raced
                /\ Len(thr[t].ret) = 2) =>
              thr[t].ret[2][2] =
                  ProofOf(ProofBytes(URIdecode(thr[t].access_token).value,
                                     thr[t].uri, thr[t].ticks))
    /\ \A t, u \in Threads :
          (/\ HeadersReturned(t) /\ HeadersReturned(u)
           /\ ~thr[t].sigfail /\ ~thr[u].sigfail /\ ~thr[t].raced /\ ~thr[u].raced
           /\ Len(thr[t].ret) = 2 /\ Len(thr[u].ret) = 2
           /\ thr[t].ticks = thr[u].ticks
           /\ \/ thr[t].uri = thr[u].uri
                    /\ DifferInOneByte(thr[t].access_token, thr[u].access_token)
              \/ thr[t].access_token = thr[u].access_token
                    /\ DifferInOneByte(thr[t].uri, thr[u].uri)) =>
              thr[t].ret[2][2] # thr[u].ret[2][2]

\* C3: under any interleaving, a call whose signing did not fail returns the
\* X-WOPI-Proof it would return running alone: the signature of the bytes
\* this call built and fed to the engine.
C3_ConcurrentCallAsAlone ==
    \A t \in Threads :
        (/\ HeadersReturned(t)
         /\ ~thr[t].sigfail
         /\ digestEngine.signature # UnfilledSignature(m_pKey)
         /\ Len(thr[t].ret) = 2) =>
            thr[t].ret[2][2] = ProofOf(thr[t].proof)

\* C4: the key file is opened at most once and not before the first call;
\* what the constructor loaded is what every caller sees, and once the load
\* is over neither the key nor the guard changes again, whatever happens to
\* the file.
C4_Inv ==
    /\ loadCount <= 1
    /\ proofInit \in {"uninit", "constructing"} =>
            loadCount = 0 /\ m_pKey = NoKey
    /\ proofInit = "done" =>
          /\ loadCount = 1
          /\ m_pKey = (IF loadedFile.kind = "valid" THEN loadedFile.key ELSE NoKey)
          /\ \A t \in Threads :
                (thr[t].pc = "done" /\ thr[t].outcome = "returned") =>
                    ((thr[t].ret = <<>>) <=> (m_pKey = NoKey))

C4_LoadOnce ==
    /\ []C4_Inv
    /\ [][proofInit = "done" =>
             (proofInit' = "done" /\ m_pKey' = m_pKey /\ loadCount' = loadCount)]_vars

C4_Witness ==
    /\ proofInit = "done"
    /\ loadCount = 1
    /\ loadedFile.kind = "missing"
    /\ keyFile.kind = "valid"
    /\ \E t, u \in Threads :
          /\ t # u
          /\ HeadersReturned(t) /\ thr[t].ret = <<>>
          /\ thr[u].pc = "getProof"

\* C5: after a failed load (missing, unreadable or malformed file) no call
\* throws or aborts, and every call of either entry point returns the
\* empty list.
C5_FailedLoadGivesEmptyLists ==
    LoadFailed =>
        /\ ~aborted
        /\ m_pKey = NoKey
        /\ \A t \in Threads :
              /\ thr[t].pc \in {"idle", "getProof", "haveProof", "done"}
              /\ thr[t].pc = "done" =>
                    (thr[t].outcome = "returned" /\ thr[t].ret = <<>>)

C5_Witness ==
    /\ LoadFailed
    /\ loadedFile.kind = "malformed"
    /\ \E t, u \in Threads :
          /\ HeadersReturned(t) /\ thr[t].ret = <<>>
          /\ AttribsDone(u) /\ thr[u].outcome = "returned" /\ thr[u].ret = <<>>

\* C6: a call whose signing failed completes normally and returns the empty
\* list.
C6_SigningFailureReturnsEmpty ==
    \A t \in Threads :
        (thr[t].pc = "done" /\ thr[t].sigfail) =>
            (thr[t].outcome = "returned" /\ thr[t].ret = <<>>)

\* C7: for every token that decodes, every uri and every tick value, build
\* returns exactly length(token), token, length(uri), uri, 8, ticks, all
\* big-endian, of 4+len(token)+4+len(uri)+4+8 bytes.
C7_BuildIsTheConcatenation ==
    (pure.fn = "GetProof" /\ pure.done /\ URIdecode(pure.access_token).ok) =>
        /\ pure.out.status = "ok"
        /\ pure.out.value = ProofBytes(URIdecode(pure.access_token).value,
                                       pure.uri, pure.ticks)
        /\ Len(pure.out.value) = 4 + Len(URIdecode(pure.access_token).value)
                                   + 4 + Len(pure.uri) + 4 + 8

\* C8: for the token "tok%20en", the uri of 26 bytes and ticks
\* 637000000000000000, build returns 52 bytes of which the first four are
\* the big-endian 6.
C8_EndToEndScenario ==
    (/\ pure.fn = "GetProof" /\ pure.done
     /\ pure.access_token = TokEncoded
     /\ pure.uri = UriWopi26
     /\ pure.ticks = Ticks637) =>
        /\ pure.out.status = "ok"
        /\ Len(pure.out.value) = 52
        /\ SubSeq(pure.out.value, 1, 4) = <<0, 0, 0, 6>>

DiscoveryAttributes ==
    IF m_pKey = NoKey THEN <<>>
    ELSE << <<"value", BytesToBase64(PublicKeyBlob(m_pKey.modulus, m_pKey.exponent))>>,
            <<"modulus", BytesToBase64(m_pKey.modulus)>>,
            <<"exponent", BytesToBase64(m_pKey.exponent)>> >>

C10_Inv ==
    /\ proofInit = "done" => m_aAttribs = DiscoveryAttributes
    /\ Len(m_aAttribs) \in {0, 3}
    /\ \A t \in Threads :
          AttribsDone(t) =>
              (thr[t].outcome = "returned" /\ thr[t].ret = DiscoveryAttributes)

C10_AttributesFixed ==
    /\ []C10_Inv
    /\ [][proofInit = "done" => m_aAttribs' = m_aAttribs]_vars

C10_Witness ==
    /\ KeyLoaded
    /\ \E t, u \in Threads :
          /\ AttribsDone(t)
          /\ thr[t].ret = << <<"value", "BgIAAACkAABSU0ExEAAAAAEAARHI">>,
                             <<"modulus", "yBE=">>,
                             <<"exponent", "AQAB">> >>
          /\ HeadersReturned(u) /\ Len(thr[u].ret) = 2
====
